---- MODULE Spec2Model ----
(***************************************************************************)
(* Model of the PDF-to-image wrapper: the engine loader (loadPdfJs), the    *)
(* conversion pipeline (convertPdfToImage) of both source files that define *)
(* it, and the formatSize helper of app/lib/pdf2img.ts.                     *)
(*                                                                          *)
(* Strings the code inspects character by character (file names, the       *)
(* output of toFixed) are sequences of one-character strings.  Error        *)
(* messages are sequences of fragments; String.prototype.includes is        *)
(* membership of a fragment.                                                *)
(***************************************************************************)
EXTENDS Integers, Sequences, FiniteSets, TLC

\* ------------------------------------------------------------------ bounds
\* Number of convertPdfToImage calls that may be in flight together.
NumCalls == 2
\* File names are concatenations of at most MaxParts fragments of NameParts.
MaxParts == 3
\* formatSize inputs are m * 1024^e with 1 <= m <= MaxMantissa, 0 <= e <= MaxExp.
MaxMantissa == 2100
MaxExp == 5

\* --------------------------------------------------------- program constants
\* page.getViewport({ scale: 4 })
Scale == 4

Calls == 1..NumCalls

\* The two source files that define loadPdfJs / convertPdfToImage.
Pdf2Img == "app/lib/pdf2img.ts"
Part000 == "unnamed/part_000"
SourceFiles == {Pdf2Img, Part000}

VARIABLES
    srcFile,      \* which of the two modules is the one loaded
    pdfjsLib,     \* module-level: "null" or "lib"
    isLoading,    \* module-level flag
    loadPromise,  \* module-level: Null or the index of a promise in promises
    promises,     \* every promise loadPdfJs created with import(...).then(...)
    pc,           \* per call: where the async function is suspended
    fileName,     \* per call: file.name
    awaiting,     \* per call: what loadPdfJs() returned to it
    handed,       \* per call: how loadPdfJs() answered (history)
    page,         \* per call: intrinsic <<width, height>> of page 1
    canvas,       \* per call: <<width, height>> of the canvas
    blob,         \* per call: what toBlob delivered
    caught,       \* per call: the value the catch block received
    settled,      \* per call: state of the promise convertPdfToImage returned
    result,       \* per call: the value that promise resolved to
    log,          \* per call: steps started / completed / failed, in order
    filesCreated, \* per call: number of new File(...) that succeeded
    urlsCreated,  \* per call: number of URL.createObjectURL(...) that succeeded
    arg,          \* input of the pure function under check
    ret           \* its output

moduleVars == <<srcFile, pdfjsLib, isLoading, loadPromise, promises>>
callVars == <<pc, fileName, awaiting, handed, page, canvas, blob, caught,
              settled, result, log, filesCreated, urlsCreated>>
pureVars == <<arg, ret>>
vars == <<moduleVars, callVars, pureVars>>

\* ------------------------------------------------------------------ values
Null == 0
CachedHandle == -1

NoValue == [isError |-> FALSE, message |-> <<>>]
NoSize == <<0, 0>>

\* Values a collaborator may throw or reject with.
GenericError == [isError |-> TRUE, message |-> <<"Invalid PDF structure.">>]
MismatchError ==
    [isError |-> TRUE,
     message |-> <<"The ", "API version", " \"5.4.54\" does not match the ",
                   "Worker version", " \"5.3.0\".">>]
ApiOnlyError == [isError |-> TRUE, message |-> <<"Unsupported ", "API version", ".">>]
\* A thrown value that is not an Error instance (String(err) is its text).
ThrownString == [isError |-> FALSE, message |-> <<"API version", " / ", "Worker version">>]
ThrownValues == {GenericError, MismatchError, ApiOnlyError, ThrownString}
\* file.arrayBuffer() rejects with a DOMException, an Error.
ReadErrors == {GenericError}
\* pdf.getPage(1) and renderTask.promise reject with an engine Error.
PageErrors == {GenericError, MismatchError}

ContextError == [isError |-> TRUE, message |-> <<"Failed to get canvas 2D context">>]

\* Intrinsic size of page 1, in points (US Letter).
PageSizes == {<<612, 792>>}

\* Names of the spec's examples.
ReportPDF == <<"r", "e", "p", "o", "r", "t", ".", "P", "D", "F">>
ArchiveTarPdf == <<"a", "r", "c", "h", "i", "v", "e", ".", "t", "a", "r", ".", "p", "d", "f">>
NoExt == <<"n", "o", "e", "x", "t">>
ExampleNames == {ReportPDF, ArchiveTarPdf, NoExt}
\* The names the concurrent calls are made with.
CallNames == {ReportPDF, NoExt}

\* ------------------------------------------------------- name derivation
\* Canonicalisation of the /i flag on the characters the pattern uses.
toLower(ch) ==
    CASE ch = "P" -> "p"
      [] ch = "D" -> "d"
      [] ch = "F" -> "f"
      [] OTHER -> ch

PdfPattern == <<".", "p", "d", "f">>

\* Mutant: the pattern without the i flag.
matchAt_CaseSensitive(s, i) ==
    /\ i + 3 = Len(s)
    /\ \A k \in 1..4 : s[i + k - 1] = PdfPattern[k]

\* /\.pdf$/i matches at position i of s: four characters equal to ".pdf"
\* up to letter case, and the end of the input right after them.
matchAt(s, i) ==
    /\ i + 3 <= Len(s)
    /\ \A k \in 1..4 : toLower(s[i + k - 1]) = PdfPattern[k]
    /\ i + 3 = Len(s)

\* file.name.replace(/\.pdf$/i, ''): the leftmost match, if any, is removed.
replacePdf(s) ==
    LET hits == {i \in 1..Len(s) : matchAt(s, i)}
    IN  IF hits = {} THEN s
        ELSE LET i == CHOOSE j \in hits : \A k \in hits : j <= k
             IN  SubSeq(s, 1, i - 1) \o SubSeq(s, i + 4, Len(s))

\* `${originalName}.png`
imageFileName(name) ==
    LET originalName == replacePdf(name)
    IN  originalName \o <<".", "p", "n", "g">>

\* ------------------------------------------------------------- results
NoError == [present |-> FALSE, text |-> <<>>]
NullFile == [isNull |-> TRUE, name |-> <<>>, type |-> ""]
NoResult == [imageUrl |-> <<>>, file |-> NullFile, error |-> NoError]

BlobErrorText == <<"Failed to create image blob from canvas">>
GuidanceText ==
    <<"PDF.js API version does not match Worker version. ",
      "Please ensure you are using the correct worker file for your PDF.js version. ",
      "Try clearing your browser cache or updating the worker file.">>

includes(message, fragment) == \E i \in 1..Len(message) : message[i] = fragment

\* Mutant: the else branch of the blob callback resolves without an error.
blobFailureResult_NoError ==
    [imageUrl |-> <<>>, file |-> NullFile, error |-> NoError]

\* resolve({ imageUrl: '', file: null, error: 'Failed to create image blob from canvas' })
blobFailureResult ==
    [imageUrl |-> <<>>, file |-> NullFile,
     error |-> [present |-> TRUE, text |-> BlobErrorText]]

\* URL.createObjectURL(blob): a fresh "blob:" URL.
createObjectURL(c) == <<"blob:", c>>

\* resolve({ imageUrl: URL.createObjectURL(blob), file: imageFile })
successResult(c, name) ==
    [imageUrl |-> createObjectURL(c),
     file |-> [isNull |-> FALSE, name |-> imageFileName(name), type |-> "image/png"],
     error |-> NoError]

\* The catch block's errorMessage.  Only unnamed/part_000 has the
\* version-mismatch rewrite.
errorMessage(f, err) ==
    LET plain == <<"Failed to convert PDF">> \o <<": ">> \o err.message
    IN  IF /\ err.isError
           /\ f = Part000
           /\ includes(err.message, "API version")
           /\ includes(err.message, "Worker version")
        THEN GuidanceText
        ELSE plain

\* return { imageUrl: '', file: null, error: errorMessage }
catchResult(f, err) ==
    [imageUrl |-> <<>>, file |-> NullFile,
     error |-> [present |-> TRUE, text |-> errorMessage(f, err)]]

\* ------------------------------------------------------------ formatSize
\* A byte count is <<m, e>>, the number m * 1024^e: m <= 0 (with e = 0) for the
\* inputs the first two returns handle, 1 <= m otherwise.  Every such number
\* below 2^53 is a double, and bytes / Math.pow(1024, i) is exact.

units == <<"B", "KB", "MB", "GB", "TB">>

RECURSIVE pow1024(_)
pow1024(j) == IF j = 0 THEN 1 ELSE 1024 * pow1024(j - 1)

\* floor(log(m) / log(1024)) for an integer m >= 1.
RECURSIVE floorLog1024(_)
floorLog1024(m) == IF m < 1024 THEN 0 ELSE 1 + floorLog1024(m \div 1024)

DigitChars == <<"0", "1", "2", "3", "4", "5", "6", "7", "8", "9">>
digitChar(d) == DigitChars[d + 1]
isDigit(ch) == \E d \in 1..10 : DigitChars[d] = ch

\* The decimal digits of n >= 0.
RECURSIVE decimal(_)
decimal(n) == IF n < 10 THEN <<digitChar(n)>>
              ELSE decimal(n \div 10) \o <<digitChar(n % 10)>>

\* (m / 1024^j).toFixed(2): the integer n with n / 100 nearest to the exact
\* value (the larger n on a tie), written with two decimals.
toFixed2(m, j) ==
    LET n == (200 * m + pow1024(j)) \div (2 * pow1024(j))
    IN  decimal(n \div 100) \o <<".">> \o
        <<digitChar((n % 100) \div 10), digitChar(n % 10)>>

\* .replace(/\.0+$|(\.[0-9]*[1-9])0+$/, '$1'): the leftmost "." followed only
\* by digits of which the last is 0.  If all of them are 0 the match is
\* removed ($1 is empty); otherwise $1, the text up to the last digit that is
\* not 0, stays.
replaceTrailingZeros(s) ==
    LET hits == {i \in 1..Len(s) :
                    /\ s[i] = "."
                    /\ i < Len(s)
                    /\ \A k \in (i + 1)..Len(s) : isDigit(s[k])
                    /\ s[Len(s)] = "0"}
    IN  IF hits = {} THEN s
        ELSE LET i == CHOOSE j \in hits : \A k \in hits : j <= k
                 nz == {k \in (i + 1)..Len(s) : s[k] # "0"}
             IN  IF nz = {} THEN SubSeq(s, 1, i - 1)
                 ELSE SubSeq(s, 1, CHOOSE k \in nz : \A l \in nz : l <= k)

\* `${units[i]}`: an index past the array gives undefined.
unitAt(i) == IF i + 1 \in DOMAIN units THEN units[i + 1] ELSE "undefined"

\* Math.floor(Math.log(bytes) / Math.log(1024)) for bytes = m * 1024^e.  In
\* IEEE doubles the quotient is exact at the powers of 1024 and at least
\* 1e-4 away from an integer at every other number of the model.
unitIndex(b) == b[2] + floorLog1024(b[1])

formatSize(b) ==
    IF b[1] < 0 THEN <<"0", " ", "B">>
    ELSE IF b[1] = 0 THEN <<"0", " ", "B">>
    ELSE LET i == unitIndex(b)
             value == replaceTrailingZeros(toFixed2(b[1], i - b[2]))
         IN  value \o <<" ">> \o <<unitAt(i)>>

\* ------------------------------------------------------------- step log
Steps == <<"engine", "bytes", "parse", "page", "surface", "render", "export", "build">>
Ev(step, what) == <<step, what>>

\* ------------------------------------------------------------------ Init
PipelineInit ==
    /\ srcFile \in SourceFiles
    /\ pdfjsLib = "null"
    /\ isLoading = FALSE
    /\ loadPromise = Null
    /\ promises = <<>>
    /\ pc = [c \in Calls |-> "idle"]
    /\ fileName = [c \in Calls |-> <<>>]
    /\ awaiting = [c \in Calls |-> Null]
    /\ handed = [c \in Calls |-> "none"]
    /\ page = [c \in Calls |-> NoSize]
    /\ canvas = [c \in Calls |-> NoSize]
    /\ blob = [c \in Calls |-> "none"]
    /\ caught = [c \in Calls |-> NoValue]
    /\ settled = [c \in Calls |-> "pending"]
    /\ result = [c \in Calls |-> NoResult]
    /\ log = [c \in Calls |-> <<>>]
    /\ filesCreated = [c \in Calls |-> 0]
    /\ urlsCreated = [c \in Calls |-> 0]

Init ==
    /\ PipelineInit
    /\ arg = <<>>
    /\ ret = <<>>

\* ------------------------------------------------------------ loadPdfJs
\* Mutant: no `if (loadPromise) return loadPromise`.
loadPdfJs_NoInflightGuard(c) ==
    IF pdfjsLib # "null"
    THEN /\ awaiting' = [awaiting EXCEPT ![c] = CachedHandle]
         /\ handed' = [handed EXCEPT ![c] = "cached"]
         /\ UNCHANGED <<isLoading, loadPromise, promises>>
    ELSE /\ isLoading' = TRUE
         /\ promises' = Append(promises, [state |-> "importLib", reason |-> NoValue])
         /\ loadPromise' = Len(promises) + 1
         /\ awaiting' = [awaiting EXCEPT ![c] = Len(promises) + 1]
         /\ handed' = [handed EXCEPT ![c] = "new"]

\* The synchronous part of loadPdfJs(), run by call c.  import() never throws
\* synchronously, so the catch block of loadPdfJs is never entered.
loadPdfJs(c) ==
    IF pdfjsLib # "null"
    THEN /\ awaiting' = [awaiting EXCEPT ![c] = CachedHandle]
         /\ handed' = [handed EXCEPT ![c] = "cached"]
         /\ UNCHANGED <<isLoading, loadPromise, promises>>
    ELSE IF loadPromise # Null
    THEN /\ awaiting' = [awaiting EXCEPT ![c] = loadPromise]
         /\ handed' = [handed EXCEPT ![c] =
                          CASE promises[loadPromise].state = "rejected" -> "failed"
                            [] promises[loadPromise].state = "fulfilled" -> "fulfilled"
                            [] OTHER -> "inflight"]
         /\ UNCHANGED <<isLoading, loadPromise, promises>>
    ELSE /\ isLoading' = TRUE
         /\ promises' = Append(promises, [state |-> "importLib", reason |-> NoValue])
         /\ loadPromise' = Len(promises) + 1
         /\ awaiting' = [awaiting EXCEPT ![c] = Len(promises) + 1]
         /\ handed' = [handed EXCEPT ![c] = "new"]

\* The body of the .then callback once every import it awaits has succeeded.
ThenCallbackDone(p) ==
    /\ pdfjsLib' = "lib"
    /\ isLoading' = FALSE
    /\ promises' = [promises EXCEPT ![p].state = "fulfilled"]

\* import('pdfjs-dist/build/pdf.min.mjs') succeeds.
ImportLibOk(p) ==
    /\ promises[p].state = "importLib"
    /\ IF srcFile = Pdf2Img
       THEN \* the callback suspends at `await import(...pdf.worker.min.mjs)`
            /\ promises' = [promises EXCEPT ![p].state = "importWorker"]
            /\ UNCHANGED <<pdfjsLib, isLoading>>
       ELSE ThenCallbackDone(p)
    /\ UNCHANGED <<srcFile, loadPromise, callVars, pureVars>>

\* import('pdfjs-dist/build/pdf.min.mjs') fails: the promise stored in
\* loadPromise is rejected.  Nothing resets loadPromise or isLoading.
ImportLibFail(p, e) ==
    /\ promises[p].state = "importLib"
    /\ promises' = [promises EXCEPT ![p] = [state |-> "rejected", reason |-> e]]
    /\ UNCHANGED <<srcFile, pdfjsLib, isLoading, loadPromise, callVars, pureVars>>

\* app/lib/pdf2img.ts only: the worker import inside the .then callback.
ImportWorkerOk(p) ==
    /\ promises[p].state = "importWorker"
    /\ ThenCallbackDone(p)
    /\ UNCHANGED <<srcFile, loadPromise, callVars, pureVars>>

ImportWorkerFail(p, e) ==
    /\ promises[p].state = "importWorker"
    /\ promises' = [promises EXCEPT ![p] = [state |-> "rejected", reason |-> e]]
    /\ UNCHANGED <<srcFile, pdfjsLib, isLoading, loadPromise, callVars, pureVars>>

\* ---------------------------------------------------- convertPdfToImage
\* The catch block of convertPdfToImage: the call resolves with an error result.
Catch(c, step, err) ==
    /\ pc' = [pc EXCEPT ![c] = "done"]
    /\ caught' = [caught EXCEPT ![c] = err]
    /\ settled' = [settled EXCEPT ![c] = "resolved"]
    /\ result' = [result EXCEPT ![c] = catchResult(srcFile, err)]
    /\ log' = [log EXCEPT ![c] = Append(@, Ev(step, "fail"))]

\* A step succeeded and the next one is started.
Advance(c, step, next, to) ==
    /\ pc' = [pc EXCEPT ![c] = to]
    /\ log' = [log EXCEPT ![c] = @ \o <<Ev(step, "ok"), Ev(next, "start")>>]
    /\ UNCHANGED <<caught, settled, result>>

\* convertPdfToImage(file) is called: runs up to `await loadPdfJs()`.
convertPdfToImage(c, name) ==
    /\ pc[c] = "idle"
    /\ \A d \in Calls : d < c => pc[d] # "idle"
    /\ fileName' = [fileName EXCEPT ![c] = name]
    /\ loadPdfJs(c)
    /\ pc' = [pc EXCEPT ![c] = "awaitLoad"]
    /\ log' = [log EXCEPT ![c] = <<Ev("engine", "start")>>]
    /\ UNCHANGED <<srcFile, pdfjsLib, page, canvas, blob, caught, settled, result,
                   filesCreated, urlsCreated, pureVars>>

LoadSettled(c) ==
    IF awaiting[c] = CachedHandle THEN TRUE
    ELSE IF awaiting[c] = Null THEN FALSE
    ELSE promises[awaiting[c]].state \in {"fulfilled", "rejected"}

LoadRejected(c) ==
    IF awaiting[c] \in {CachedHandle, Null} THEN FALSE
    ELSE promises[awaiting[c]].state = "rejected"

\* `await loadPdfJs()` resumes: with the handle, or by throwing the reason.
AfterLoadPdfJs(c) ==
    /\ pc[c] = "awaitLoad"
    /\ LoadSettled(c)
    /\ IF LoadRejected(c)
       THEN Catch(c, "engine", promises[awaiting[c]].reason)
       ELSE Advance(c, "engine", "bytes", "awaitBytes")
    /\ UNCHANGED <<moduleVars, fileName, awaiting, handed, page, canvas, blob,
                   filesCreated, urlsCreated, pureVars>>

\* `await file.arrayBuffer()` settles.
AfterArrayBuffer(c, ok, e) ==
    /\ pc[c] = "awaitBytes"
    /\ IF ok THEN Advance(c, "bytes", "parse", "awaitDoc")
             ELSE Catch(c, "bytes", e)
    /\ UNCHANGED <<moduleVars, fileName, awaiting, handed, page, canvas, blob,
                   filesCreated, urlsCreated, pureVars>>

\* `await lib.getDocument({ data }).promise` settles.
AfterGetDocument(c, ok, e) ==
    /\ pc[c] = "awaitDoc"
    /\ IF ok THEN Advance(c, "parse", "page", "awaitPage")
             ELSE Catch(c, "parse", e)
    /\ UNCHANGED <<moduleVars, fileName, awaiting, handed, page, canvas, blob,
                   filesCreated, urlsCreated, pureVars>>

\* page.getViewport({ scale: 4 })
getViewport(size) == <<Scale * size[1], Scale * size[2]>>

\* Mutant: the `if (!context) throw` check is missing.
contextUsable_NoCheck(ctx) == TRUE

\* `if (!context) { throw ... }` lets the call go on.
contextUsable(ctx) == ctx # "null"

\* `await pdf.getPage(1)` fails.
AfterGetPageFail(c, e) ==
    /\ pc[c] = "awaitPage"
    /\ Catch(c, "page", e)
    /\ UNCHANGED <<moduleVars, fileName, awaiting, handed, page, canvas, blob,
                   filesCreated, urlsCreated, pureVars>>

\* `await pdf.getPage(1)` succeeds; then, synchronously: viewport, canvas,
\* getContext('2d'), the context check, the canvas size, page.render(...).
AfterGetPage(c, size, ctx) ==
    /\ pc[c] = "awaitPage"
    /\ page' = [page EXCEPT ![c] = size]
    /\ IF contextUsable(ctx)
       THEN /\ canvas' = [canvas EXCEPT ![c] = getViewport(size)]
            /\ pc' = [pc EXCEPT ![c] = "awaitRender"]
            /\ log' = [log EXCEPT ![c] = @ \o
                         <<Ev("page", "ok"), Ev("surface", "start"),
                           Ev("surface", IF ctx = "null" THEN "fail" ELSE "ok"),
                           Ev("render", "start")>>]
            /\ UNCHANGED <<caught, settled, result>>
       ELSE /\ pc' = [pc EXCEPT ![c] = "done"]
            /\ caught' = [caught EXCEPT ![c] = ContextError]
            /\ settled' = [settled EXCEPT ![c] = "resolved"]
            /\ result' = [result EXCEPT ![c] = catchResult(srcFile, ContextError)]
            /\ log' = [log EXCEPT ![c] = @ \o
                         <<Ev("page", "ok"), Ev("surface", "start"),
                           Ev("surface", "fail")>>]
            /\ UNCHANGED canvas
    /\ UNCHANGED <<moduleVars, fileName, awaiting, handed, blob,
                   filesCreated, urlsCreated, pureVars>>

\* `await renderTask.promise` rejects.
AfterRenderFail(c, e) ==
    /\ pc[c] = "awaitRender"
    /\ Catch(c, "render", e)
    /\ UNCHANGED <<moduleVars, fileName, awaiting, handed, page, canvas, blob,
                   filesCreated, urlsCreated, pureVars>>

\* `await renderTask.promise` fulfils; `return new Promise(...)` runs its
\* executor, which calls canvas.toBlob.  A toBlob that throws makes the new
\* promise reject: the surrounding try does not see it, because the promise is
\* returned without await.
AfterRender(c, toBlobThrows) ==
    /\ pc[c] = "awaitRender"
    /\ IF toBlobThrows
       THEN /\ pc' = [pc EXCEPT ![c] = "done"]
            /\ settled' = [settled EXCEPT ![c] = "rejected"]
            /\ log' = [log EXCEPT ![c] = @ \o
                         <<Ev("render", "ok"), Ev("export", "start"),
                           Ev("export", "fail")>>]
            /\ UNCHANGED <<caught, result>>
       ELSE Advance(c, "render", "export", "awaitBlob")
    /\ UNCHANGED <<moduleVars, fileName, awaiting, handed, page, canvas, blob,
                   filesCreated, urlsCreated, pureVars>>

\* Mutant: the callback does not test the blob.
blobTruthy_NoCheck(b) == TRUE

\* `if (blob)`
blobTruthy(b) == b # "null"

\* The callback given to canvas.toBlob runs with a blob or with null.
\* With a blob: new File(...), URL.createObjectURL(blob), resolve(...); an
\* exception of either leaves the callback, and resolve is never called.
\* With null: resolve(...) with the blob error.
ToBlobCallback(c, b, fileOk, urlOk) ==
    /\ pc[c] = "awaitBlob"
    /\ blob' = [blob EXCEPT ![c] = b]
    /\ IF blobTruthy(b)
       THEN /\ filesCreated' = [filesCreated EXCEPT ![c] = IF fileOk THEN @ + 1 ELSE @]
            /\ urlsCreated' = [urlsCreated EXCEPT ![c] =
                                  IF fileOk /\ urlOk THEN @ + 1 ELSE @]
            /\ IF fileOk /\ urlOk
               THEN /\ pc' = [pc EXCEPT ![c] = "done"]
                    /\ settled' = [settled EXCEPT ![c] = "resolved"]
                    /\ result' = [result EXCEPT ![c] = successResult(c, fileName[c])]
                    /\ log' = [log EXCEPT ![c] = @ \o
                                 <<Ev("export", IF b = "null" THEN "fail" ELSE "ok"),
                                   Ev("build", "start"), Ev("build", "ok")>>]
               ELSE /\ pc' = [pc EXCEPT ![c] = "abandoned"]
                    /\ log' = [log EXCEPT ![c] = @ \o
                                 <<Ev("export", IF b = "null" THEN "fail" ELSE "ok"),
                                   Ev("build", "start"), Ev("build", "fail")>>]
                    /\ UNCHANGED <<settled, result>>
       ELSE /\ pc' = [pc EXCEPT ![c] = "done"]
            /\ settled' = [settled EXCEPT ![c] = "resolved"]
            /\ result' = [result EXCEPT ![c] = blobFailureResult]
            /\ log' = [log EXCEPT ![c] = Append(@, Ev("export", "fail"))]
            /\ UNCHANGED <<filesCreated, urlsCreated>>
    /\ UNCHANGED <<moduleVars, fileName, awaiting, handed, page, canvas, caught,
                   pureVars>>

\* ------------------------------------------------------------------ Next
Next ==
    \/ \E c \in Calls, n \in CallNames : convertPdfToImage(c, n)
    \/ \E p \in 1..Len(promises) : ImportLibOk(p)
    \/ \E p \in 1..Len(promises), e \in ThrownValues : ImportLibFail(p, e)
    \/ \E p \in 1..Len(promises) : ImportWorkerOk(p)
    \/ \E p \in 1..Len(promises), e \in ThrownValues : ImportWorkerFail(p, e)
    \/ \E c \in Calls : AfterLoadPdfJs(c)
    \/ \E c \in Calls, ok \in BOOLEAN, e \in ReadErrors : AfterArrayBuffer(c, ok, e)
    \/ \E c \in Calls, ok \in BOOLEAN, e \in ThrownValues : AfterGetDocument(c, ok, e)
    \/ \E c \in Calls, e \in PageErrors : AfterGetPageFail(c, e)
    \/ \E c \in Calls, s \in PageSizes, ctx \in {"null", "2d"} : AfterGetPage(c, s, ctx)
    \/ \E c \in Calls, e \in PageErrors : AfterRenderFail(c, e)
    \/ \E c \in Calls, t \in BOOLEAN : AfterRender(c, t)
    \/ \E c \in Calls, b \in {"blob", "null"}, f \in BOOLEAN, u \in BOOLEAN :
          ToBlobCallback(c, b, f, u)

Spec == Init /\ [][Next]_vars

\* ------------------------------------------------ name derivation alone
NameParts ==
    { <<".", "p", "d", "f">>, <<".", "P", "D", "F">>, <<".", "p", "D", "f">>,
      <<"a">>, <<".">>, <<"p", "d", "f">>, <<"F">>, <<".", "p", "d">> }

RECURSIVE NamesOf(_)
NamesOf(k) ==
    IF k = 0 THEN {<<>>}
    ELSE LET shorter == NamesOf(k - 1)
         IN  shorter \cup {n \o q : n \in shorter, q \in NameParts}

InitName ==
    /\ PipelineInit
    /\ arg \in NamesOf(MaxParts) \cup ExampleNames
    /\ ret = <<>>

\* The success branch of the blob callback names the file.
DeriveName ==
    /\ ret = <<>>
    /\ ret' = imageFileName(arg)
    /\ UNCHANGED <<moduleVars, callVars, arg>>

NextName == DeriveName

SpecName == InitName /\ [][NextName]_vars

\* ------------------------------------------------------ formatSize alone
SizeInputs ==
    {<<-10, 0>>, <<-1, 0>>, <<0, 0>>} \cup ((1..MaxMantissa) \X (0..MaxExp))

InitSize ==
    /\ PipelineInit
    /\ srcFile = Pdf2Img
    /\ arg \in SizeInputs
    /\ ret = <<>>

FormatSize ==
    /\ ret = <<>>
    /\ ret' = formatSize(arg)
    /\ UNCHANGED <<moduleVars, callVars, arg>>

NextSize == FormatSize

SpecSize == InitSize /\ [][NextSize]_vars

\* =============================================================== claims
Started(c) == pc[c] # "idle"
Resolved(c) == settled[c] = "resolved"
StepFailed(c) == \E i \in 1..Len(log[c]) : log[c][i][2] = "fail"
StepOk(c, step) == \E i \in 1..Len(log[c]) : log[c][i] = <<step, "ok">>
Outstanding(c) ==
    pc[c] \in {"awaitLoad", "awaitBytes", "awaitDoc", "awaitPage", "awaitRender",
               "awaitBlob"}

\* C1: the promise convertPdfToImage returns never rejects, whichever step
\* fails; a call in which a step failed and that has settled has resolved to
\* a result whose error field is populated.
C1_NeverRejects ==
    \A c \in Calls :
        /\ settled[c] # "rejected"
        /\ (StepFailed(c) /\ Resolved(c)) => result[c].error.present

\* C2: under every interleaving of the calls the engine initialization (the
\* dynamic import) is started exactly once; a call that arrives while it is
\* in flight is handed that one promise, and a call after a successful load
\* is handed the cached handle.
C2_SingleInitialization ==
    /\ Len(promises) <= 1
    /\ (\E c \in Calls : Started(c)) => Len(promises) = 1
    /\ \A c \in Calls :
          /\ handed[c] \in {"none", "new", "inflight", "cached", "failed"}
          /\ handed[c] \in {"new", "inflight"} => awaiting[c] = 1 /\ loadPromise = 1
          /\ handed[c] = "cached" =>
                /\ awaiting[c] = CachedHandle
                /\ pdfjsLib = "lib"
                /\ promises[1].state = "fulfilled"

\* Two calls started before the engine had loaded, and the load succeeded.
C2_Witness ==
    /\ handed[1] = "new"
    /\ handed[2] = "inflight"
    /\ pdfjsLib = "lib"
    /\ StepOk(1, "engine")
    /\ StepOk(2, "engine")

\* C3: after a failed initialization loadPromise no longer holds the failed
\* promise, and a later call starts a new attempt instead of being handed the
\* failed one.
C3_ClearedAfterFailure ==
    /\ IF loadPromise = Null THEN TRUE
       ELSE promises[loadPromise].state # "rejected"
    /\ \A c \in Calls : handed[c] # "failed"

SuccessShape(r) ==
    /\ ~r.file.isNull
    /\ r.imageUrl # <<>>
    /\ ~r.error.present

FailureShape(r) ==
    /\ r.file.isNull
    /\ r.imageUrl = <<>>
    /\ r.error.present
    /\ r.error.text # <<>>
    /\ \A i \in 1..Len(r.error.text) : r.error.text[i] # ""

\* C4: every result convertPdfToImage resolves to is a success (file, URL, no
\* error) or a failure (null file, empty URL, non-empty error), never a mix.
C4_TwoShapes ==
    \A c \in Calls :
        Resolved(c) => SuccessShape(result[c]) \/ FailureShape(result[c])

\* One call resolved to a success and another to the null-blob failure.
C4_Witness ==
    \E c, d \in Calls :
        /\ Resolved(c) /\ SuccessShape(result[c])
        /\ Resolved(d) /\ FailureShape(result[d]) /\ blob[d] = "null"

\* C5: when the catch block receives an Error whose message mentions both
\* 'API version' and 'Worker version', the result's error is the rewritten
\* guidance message, not the raw message with the 'Failed to convert PDF: '
\* prefix.
C5_MismatchRewritten ==
    \A c \in Calls :
        ( /\ Resolved(c)
          /\ caught[c].isError
          /\ includes(caught[c].message, "API version")
          /\ includes(caught[c].message, "Worker version") )
        => /\ result[c].error.present
           /\ result[c].error.text =
                <<"PDF.js API version does not match Worker version. ",
                  "Please ensure you are using the correct worker file for your PDF.js version. ",
                  "Try clearing your browser cache or updating the worker file.">>

\* C6: when toBlob delivers null the call resolves to file null, imageUrl ''
\* and the error 'Failed to create image blob from canvas', and neither a
\* File nor an object URL has been created.
C6_NullBlob ==
    \A c \in Calls :
        blob[c] = "null" =>
            /\ Resolved(c)
            /\ result[c].file.isNull
            /\ result[c].imageUrl = <<>>
            /\ result[c].error =
                 [present |-> TRUE,
                  text |-> <<"Failed to create image blob from canvas">>]
            /\ filesCreated[c] = 0
            /\ urlsCreated[c] = 0

\* Rendering succeeded and toBlob called back with null.
C6_Witness ==
    \E c \in Calls : blob[c] = "null" /\ StepOk(c, "render") /\ pc[c] = "done"

EndsWithPdfAnyCase(n) ==
    /\ Len(n) >= 4
    /\ n[Len(n) - 3] = "."
    /\ n[Len(n) - 2] \in {"p", "P"}
    /\ n[Len(n) - 1] \in {"d", "D"}
    /\ n[Len(n)] \in {"f", "F"}

ExpectedImageName(n) ==
    (IF EndsWithPdfAnyCase(n) THEN SubSeq(n, 1, Len(n) - 4) ELSE n)
        \o <<".", "p", "n", "g">>

\* C7: the returned file's name is the input name with one trailing '.pdf'
\* (any letter case) removed, if there is one, followed by '.png';
\* report.PDF, archive.tar.pdf and noext give report.png, archive.tar.png and
\* noext.png.
C7_ImageName ==
    ret # <<>> =>
        /\ ret = ExpectedImageName(arg)
        /\ arg = ReportPDF => ret = <<"r", "e", "p", "o", "r", "t", ".", "p", "n", "g">>
        /\ arg = ArchiveTarPdf =>
              ret = <<"a", "r", "c", "h", "i", "v", "e", ".", "t", "a", "r",
                      ".", "p", "n", "g">>
        /\ arg = NoExt => ret = <<"n", "o", "e", "x", "t", ".", "p", "n", "g">>

\* A name with two suffixes, the last in capitals: only the last is removed.
C7_Witness ==
    /\ arg = <<".", "p", "d", "f", ".", "P", "D", "F">>
    /\ ret = <<".", "p", "d", "f", ".", "p", "n", "g">>

NoStepTwice(c) ==
    \A i, j \in 1..Len(log[c]) :
        (i < j /\ log[c][i][2] = "start" /\ log[c][j][2] = "start")
            => log[c][i][1] # log[c][j][1]

\* C8: a started call has settled, or one of its collaborator operations is
\* still to complete (so that, every such operation completing or failing,
\* the call settles and none stays pending forever); no step is started
\* twice.  A rejection counts as settled here: whether the call may reject is
\* the subject of C1.
C8_SettlesWithResult ==
    \A c \in Calls :
        Started(c) => /\ (settled[c] # "pending" \/ Outstanding(c))
                      /\ NoStepTwice(c)

\* The steps of one call, in order; an event after a failure does not exist.
LogInOrder(l) ==
    \A i \in 1..Len(l) :
        LET k == (i + 1) \div 2
        IN  /\ k <= Len(Steps)
            /\ l[i][1] = Steps[k]
            /\ IF i % 2 = 1 THEN l[i][2] = "start" ELSE l[i][2] \in {"ok", "fail"}
            /\ l[i][2] = "fail" => i = Len(l)

\* C9: within one call the steps start in the order engine, bytes, parse,
\* page, surface, render, export, build, each only after its predecessor
\* succeeded and none after a failure; the surface is sized to the viewport
\* at scale 4.
C9_StepOrder ==
    \A c \in Calls :
        /\ LogInOrder(log[c])
        /\ StepOk(c, "surface") => canvas[c] = <<4 * page[c][1], 4 * page[c][2]>>

\* One call ran all eight steps; another stopped at a surface without a 2D
\* context.
C9_Witness ==
    \E c, d \in Calls :
        /\ Len(log[c]) = 16 /\ ~StepFailed(c) /\ Resolved(c)
        /\ Resolved(d)
        /\ \E i \in 1..Len(log[d]) : log[d][i] = <<"surface", "fail">>

\* The claim's value text: bytes / 1024^i rounded to two decimals, trailing
\* zeros and a bare decimal point removed (m = bytes / 1024^e, j = i - e).
RoundedText(m, j) ==
    LET q == (100 * m) \div pow1024(j)
        r == (100 * m) % pow1024(j)
        n == IF 2 * r >= pow1024(j) THEN q + 1 ELSE q
        whole == decimal(n \div 100)
        d1 == (n % 100) \div 10
        d2 == n % 10
    IN  IF d1 = 0 /\ d2 = 0 THEN whole
        ELSE IF d2 = 0 THEN whole \o <<".", digitChar(d1)>>
        ELSE whole \o <<".", digitChar(d1), digitChar(d2)>>

\* The largest j with 1024^j <= m.
LargestPower(m) == CHOOSE j \in 0..2 : pow1024(j) <= m /\ m < pow1024(j + 1)

FormatSizeAsClaimed(m, e) ==
    LET j == LargestPower(m)
        i == e + j
    IN  /\ i + 1 \in 1..5
        /\ ret = RoundedText(m, j) \o <<" ">>
                   \o << <<"B", "KB", "MB", "GB", "TB">>[i + 1] >>

\* C10: formatSize gives '0 B' for bytes <= 0 and, for every integer
\* bytes >= 1, the rounded value and the unit of the largest power of 1024 not
\* above bytes, the unit always one of B, KB, MB, GB, TB.
C10_FormatSize ==
    ret # <<>> =>
        IF arg[1] <= 0 THEN ret = <<"0", " ", "B">>
        ELSE FormatSizeAsClaimed(arg[1], arg[2])

\* What does hold: the same statement for bytes below 1024^5.
FormatSizeBelowPB ==
    (ret # <<>> /\ arg[1] > 0 /\ arg[2] + LargestPower(arg[1]) <= 4)
        => FormatSizeAsClaimed(arg[1], arg[2])

====
